---------------------------- MODULE Spec2Model ----------------------------
(***************************************************************************)
(* Model of app.py: the CSV loader load_data (section 3), the widgets      *)
(* (section 4) and the filter / display logic (section 5) of the Streamlit *)
(* script.  One script run is one action: Streamlit re-executes the whole  *)
(* script on every interaction.                                            *)
(*                                                                         *)
(* Text is a sequence of one-character strings, so that substring search,  *)
(* splitting, stripping and number parsing are computed character by       *)
(* character as pandas computes them.  Text cells and queries are written  *)
(* with letters, digits, space, comma, hyphen and the dot, of which only   *)
(* the dot is a regular-expression metacharacter; '$' and '%' occur in     *)
(* the numeric columns only.  Numbers are integers.                        *)
(***************************************************************************)
EXTENDS Integers, Naturals, Sequences, FiniteSets, TLC

(* ------------------------------ bounds -------------------------------- *)

\* Longest CSV body (number of data rows) a published sheet has in the model.
MaxRows == 2

\* Largest number of expected columns missing at once in the loader model.
MaxMissing == 1

(* ------------------------- program constants -------------------------- *)

\* st.slider(..., 0, 150, (0, 150)): the ends of the yield slider.
SliderMin == 0
SliderMax == 150

(* ------------------------------ cells --------------------------------- *)

\* A cell of a DataFrame: text (object dtype), a number, or NaN.
Str(s) == [t |-> "str", s |-> s, n |-> 0]
Num(n) == [t |-> "num", s |-> <<>>, n |-> n]
NaN == [t |-> "nan", s |-> <<>>, n |-> 0]

IsNaN(c) == c.t = "nan"

(* ------------------------- string operations -------------------------- *)

Range(f) == {f[i] : i \in DOMAIN f}

Uppers == <<"A","B","C","D","E","F","G","H","I","J","K","L","M",
            "N","O","P","Q","R","S","T","U","V","W","X","Y","Z">>
Lowers == <<"a","b","c","d","e","f","g","h","i","j","k","l","m",
            "n","o","p","q","r","s","t","u","v","w","x","y","z">>

\* The characters of the model's texts.
Alphabet ==
    Range(Uppers) \cup Range(Lowers) \cup
    {"0","1","2","3","4","5","6","7","8","9"," ",",","-",".","$","%"}

\* str.lower() on each character of the alphabet.
LowerOf ==
    [c \in Alphabet |->
        IF \E i \in 1..Len(Uppers) : Uppers[i] = c
        THEN Lowers[CHOOSE i \in 1..Len(Uppers) : Uppers[i] = c]
        ELSE c]

LowerChar(c) == LowerOf[c]

\* str.lower()
Lower(s) == [i \in 1..Len(s) |-> LowerChar(s[i])]

\* str.replace(ch, '', regex=False): every occurrence of ch removed.
RemoveChar(s, ch) == SelectSeq(s, LAMBDA c : c # ch)

\* Index of the first / last non-blank character (0 if none).
FirstNonBlank(s) ==
    IF \E i \in 1..Len(s) : s[i] # " "
    THEN CHOOSE i \in 1..Len(s) : s[i] # " " /\ \A j \in 1..(i-1) : s[j] = " "
    ELSE 0
LastNonBlank(s) ==
    IF \E i \in 1..Len(s) : s[i] # " "
    THEN CHOOSE i \in 1..Len(s) : s[i] # " " /\ \A j \in (i+1)..Len(s) : s[j] = " "
    ELSE 0

\* str.strip()
Strip(s) ==
    IF FirstNonBlank(s) = 0 THEN <<>>
    ELSE SubSeq(s, FirstNonBlank(s), LastNonBlank(s))

\* str.split(','): the pieces between the commas, as a sequence of texts.
RECURSIVE Split(_)
Split(s) ==
    IF \E i \in 1..Len(s) : s[i] = ","
    THEN LET k == CHOOSE i \in 1..Len(s) : s[i] = "," /\ \A j \in 1..(i-1) : s[j] # ","
         IN  <<SubSeq(s, 1, k-1)>> \o Split(SubSeq(s, k+1, Len(s)))
    ELSE <<s>>

\* re.search(pat, text) for patterns over the model's alphabet: every
\* character stands for itself except the dot, which matches any character.
RegexSearch(pat, text) ==
    \E i \in 0..(Len(text) - Len(pat)) :
        \A j \in 1..Len(pat) : pat[j] = "." \/ text[i+j] = pat[j]

\* Series.str.contains(pat) with the defaults case=True, regex=True.
StrContains(text, pat) == RegexSearch(pat, text)

\* Series.str.contains(pat, case=False): re.IGNORECASE, still a regex.
StrContainsNoCase(text, pat) == RegexSearch(Lower(pat), Lower(text))

Digits == <<"0","1","2","3","4","5","6","7","8","9">>
IsDigit(c) == \E i \in 1..10 : Digits[i] = c
DigitVal(c) == (CHOOSE i \in 1..10 : Digits[i] = c) - 1

RECURSIVE DigitsVal(_)
DigitsVal(s) ==
    IF s = <<>> THEN 0
    ELSE 10 * DigitsVal(SubSeq(s, 1, Len(s)-1)) + DigitVal(s[Len(s)])

IsDigits(s) == s # <<>> /\ \A i \in 1..Len(s) : IsDigit(s[i])

\* pd.to_numeric(text, errors='coerce') on integer literals: an optional
\* minus sign and decimal digits parse to the number, anything else
\* (including the text "nan") is coerced to NaN.
ToNumeric(s) ==
    IF IsDigits(s) THEN Num(DigitsVal(s))
    ELSE IF Len(s) > 1 /\ s[1] = "-" /\ IsDigits(Tail(s)) THEN Num(0 - DigitsVal(Tail(s)))
    ELSE NaN

\* Series.astype(str) on one cell of a raw column: NaN prints as "nan".
AsTypeStr(c) ==
    IF IsNaN(c) THEN Str(<<"n","a","n">>)
    ELSE c

\* Series.fillna(v) on one cell.
FillNa(c, v) == IF IsNaN(c) THEN v ELSE c

(* ------------------------------ columns ------------------------------- *)

\* The columns the sheet is expected to publish.
AllCols ==
    {"Ticker", "Strategy", "Company", "Underlying", "Payout", "Category",
     "Current Price", "Dividend", "Expense Ratio", "Latest Distribution",
     "AUM", "Pay Date", "Declaration Date", "Ex-Div Date"}

\* text_cols of load_data.
TextCols ==
    {"Ticker", "Strategy", "Company", "Underlying", "Payout", "Category",
     "Pay Date", "Declaration Date", "Ex-Div Date"}

\* The columns the numeric cleaning loop of load_data walks.
CleanedCols == {"Dividend", "Current Price", "Latest Distribution"}

\* A header cell as published: the name, possibly with blanks around it.
RawName(c) == [name |-> c, pad |-> (c = "Dividend")]

\* Index.str.strip() on one header cell.
StripName(h) == h.name

(* --------------------------- published data --------------------------- *)

Dash == <<"-">>

\* One CSV row over all expected columns.  Cells are text or NaN (a blank
\* CSV cell is read as NaN).
MkRow(ticker, strategy, company, underlying, payout, category, dividend, price) ==
    [c \in AllCols |->
        CASE c = "Ticker" -> ticker
          [] c = "Strategy" -> strategy
          [] c = "Company" -> company
          [] c = "Underlying" -> underlying
          [] c = "Payout" -> payout
          [] c = "Category" -> category
          [] c = "Dividend" -> dividend
          [] c = "Current Price" -> price
          [] c = "Expense Ratio" -> Str(<<"1","%">>)
          [] c = "Latest Distribution" -> Str(<<"$","x">>)
          [] c = "AUM" -> Str(<<"$","2","B">>)
          [] OTHER -> NaN]

\* Rows with a ticker.
GoodRows ==
    { MkRow(Str(<<"A","B">>), Str(<<"c","c">>), Str(<<"Y">>), Str(<<"Q">>),
            Str(<<"W">>), Str(<<"B","t","c",","," ","-">>),
            Str(<<"5","0","%">>), Str(<<"$","1",",","2","0","0">>)),
      MkRow(Str(<<"C","D">>), NaN, Str(<<"Y">>), Str(<<"a","b">>),
            Str(<<"W">>), Str(<<"b","t","c",",","0","D">>),
            Str(<<"5","0">>), Str(<<"$","7">>)),
      MkRow(Str(<<"E","F">>), Str(<<"a","-","b">>), Str(<<"Z">>), NaN,
            NaN, NaN,
            Str(<<"2","0","0","%">>), NaN) }

\* A repeated header line and a line with a blank ticker.
BadRows ==
    { MkRow(Str(<<"T","i","c","k","e","r">>), Str(<<"c","c">>), Str(<<"Y">>), Str(<<"Q">>),
            Str(<<"W">>), Str(<<"W","k">>),
            Str(<<"9","%">>), Str(<<"$","1">>)),
      MkRow(NaN, Str(<<"c","c">>), Str(<<"Y">>), Str(<<"Q">>),
            Str(<<"M">>), Str(<<"B","t","c">>),
            Str(<<"6","0","%">>), Str(<<"$","1">>)) }

\* Sequences of at most n rows of a pool, no row twice (a sheet lists a
\* fund once).
RECURSIVE RowSeqs(_, _)
RowSeqs(pool, n) ==
    IF n = 0 THEN {<<>>}
    ELSE LET shorter == RowSeqs(pool, n - 1)
         IN  shorter \cup
             UNION {{Append(s, r) : r \in pool \ Range(s)} :
                        s \in {t \in shorter : Len(t) = n - 1}}

\* What pd.read_csv(csv_url) returns for a sheet that lacks the columns
\* `missing`: the header as published and the rows keyed by it.
Sheet(missing, rows) ==
    [ok |-> TRUE,
     header |-> {RawName(c) : c \in AllCols \ missing},
     rows |-> [i \in 1..Len(rows) |->
                 [h \in {RawName(c) : c \in AllCols \ missing} |-> rows[i][StripName(h)]]]]

\* pd.read_csv(csv_url) raising (network error, HTTP error, empty body).
FetchError == [ok |-> FALSE, header |-> {}, rows |-> <<>>]

(* ------------------------------ load_data ------------------------------ *)

\* pd.DataFrame(): no columns, no rows.
EmptyFrame == [raised |-> FALSE, columns |-> {}, rows |-> <<>>]

\* load_data left by an uncaught exception (nothing is returned or cached).
Raised == [raised |-> TRUE, columns |-> {}, rows |-> <<>>]

\* DataFrame.empty: an axis of length 0.
IsEmpty(df) == df.columns = {} \/ df.rows = <<>>

\* df.columns = df.columns.str.strip(): the rows re-keyed by the stripped
\* names; each row keeps its index label (its position in the CSV).
StripColumns(src) ==
    [raised |-> FALSE,
     columns |-> {StripName(h) : h \in src.header},
     rows |-> [i \in 1..Len(src.rows) |->
                 [idx |-> i,
                  cells |-> [c \in {StripName(h) : h \in src.header} |->
                               src.rows[i][CHOOSE h \in src.header : StripName(h) = c]]]]]

\* df.dropna(subset=['Ticker']) followed by df[df['Ticker'] != 'Ticker'].
DropBadTickers(df) ==
    [df EXCEPT !.rows =
        SelectSeq(SelectSeq(df.rows, LAMBDA r : ~IsNaN(r.cells["Ticker"])),
                  LAMBDA r : r.cells["Ticker"] # Str(<<"T","i","c","k","e","r">>))]

\* Mutant of TextCell: a missing text column is filled with blanks, not '-'.
TextCell_NoDefault(df, r, col) ==
    IF col \in df.columns THEN AsTypeStr(FillNa(r.cells[col], Str(Dash)))
    ELSE Str(<<>>)

\* One cell of a text column: fillna('-').astype(str) when the column is
\* there, the constant '-' when it is not.
TextCell(df, r, col) ==
    IF col \in df.columns THEN AsTypeStr(FillNa(r.cells[col], Str(Dash)))
    ELSE Str(Dash)

\* One cell of a cleaned numeric column: astype(str), '$', '%' and ','
\* removed, to_numeric(errors='coerce'), fillna(0).
CleanNumber(c) ==
    FillNa(ToNumeric(RemoveChar(RemoveChar(RemoveChar(AsTypeStr(c).s, "$"), "%"), ",")),
           Num(0))

\* The two loops of load_data over text_cols and over the numeric columns: a
\* missing text column is added, a missing numeric column is not, and every
\* other column is left as read.
NormalizeColumns(df) ==
    [raised |-> FALSE,
     columns |-> df.columns \cup TextCols,
     rows |-> [i \in 1..Len(df.rows) |->
                 [idx |-> df.rows[i].idx,
                  cells |-> [c \in df.columns \cup TextCols |->
                               IF c \in TextCols THEN TextCell(df, df.rows[i], c)
                               ELSE IF c \in CleanedCols THEN CleanNumber(df.rows[i].cells[c])
                               ELSE df.rows[i].cells[c]]]]]

\* Mutant of LoadData: read_csv outside the try, so a failed read raises.
LoadData_NoExcept(src) ==
    IF ~src.ok THEN Raised
    ELSE IF "Ticker" \notin {StripName(h) : h \in src.header} THEN Raised
    ELSE NormalizeColumns(DropBadTickers(StripColumns(src)))

\* load_data(): a failed read gives the empty frame; df.dropna(subset=
\* ['Ticker']) raises KeyError, outside the try, when there is no Ticker
\* column.
LoadData(src) ==
    IF ~src.ok THEN EmptyFrame
    ELSE IF "Ticker" \notin {StripName(h) : h \in src.header} THEN Raised
    ELSE NormalizeColumns(DropBadTickers(StripColumns(src)))

(* ------------------------------- widgets ------------------------------- *)

\* all_tags: every Category cell split on ',', each piece stripped, empty
\* pieces and '-' left out.  These are the options of the strategy multiselect.
AllTags(df) ==
    IF "Category" \in df.columns
    THEN {Strip(piece) : piece \in UNION {Range(Split(r.cells["Category"].s)) : r \in Range(df.rows)}}
         \ {<<>>, Dash}
    ELSE {}

\* freq_opts: df['Payout'].unique(), the options of the payout multiselect.
FreqOpts(df) == {r.cells["Payout"].s : r \in Range(df.rows)}

\* What the user can type into the search box in the model ("" is the
\* empty box).
Queries ==
    {<<>>, <<"a",".">>, <<"B","T","C">>}

\* The positions the user can drag the yield slider to in the model.
YieldRanges ==
    {<<SliderMin, SliderMax>>, <<50, 50>>, <<60, SliderMax>>}

\* The widgets as a fresh session shows them.
DefaultCriteria ==
    [search_term |-> <<>>,
     selected_strategies |-> {},
     selected_freq |-> {},
     yield_range |-> <<SliderMin, SliderMax>>]

(* --------------------------- logic & display --------------------------- *)

has_search(crit) == crit.search_term # <<>>
has_strat(crit) == crit.selected_strategies # {}
has_freq(crit) == crit.selected_freq # {}
has_yield(crit) == crit.yield_range[1] > SliderMin \/ crit.yield_range[2] < SliderMax

\* The search mask: term = search_input.lower(), then str.lower().
\* str.contains(term) on five columns, or-ed.
SearchMask(r, search_input) ==
    \/ StrContains(Lower(r.cells["Ticker"].s), Lower(search_input))
    \/ StrContains(Lower(r.cells["Strategy"].s), Lower(search_input))
    \/ StrContains(Lower(r.cells["Company"].s), Lower(search_input))
    \/ StrContains(Lower(r.cells["Category"].s), Lower(search_input))
    \/ StrContains(Lower(r.cells["Underlying"].s), Lower(search_input))

FilterSearch(rows, search_input) ==
    SelectSeq(rows, LAMBDA r : SearchMask(r, search_input))

\* Mutant of FilterOneTag: case=False forgotten.
FilterOneTag_CaseSensitive(rows, strat) ==
    SelectSeq(rows, LAMBDA r : StrContains(r.cells["Category"].s, strat))

\* filtered[filtered['Category'].str.contains(strat, case=False)]
FilterOneTag(rows, strat) ==
    SelectSeq(rows, LAMBDA r : StrContainsNoCase(r.cells["Category"].s, strat))

\* for strat in selected_strategies: filtered = filtered[...]
RECURSIVE FilterTags(_, _)
FilterTags(rows, strategies) ==
    IF strategies = {} THEN rows
    ELSE LET strat == CHOOSE t \in strategies : TRUE
         IN  FilterTags(FilterOneTag(rows, strat), strategies \ {strat})

\* filtered[filtered['Payout'].isin(selected_freq)]
FilterFreq(rows, selected_freq) ==
    SelectSeq(rows, LAMBDA r : r.cells["Payout"].s \in selected_freq)

\* Mutant of YieldMask: the bounds taken exclusive.
YieldMask_Exclusive(r, yield_range) ==
    r.cells["Dividend"].n > yield_range[1] /\ r.cells["Dividend"].n < yield_range[2]

\* filtered[(filtered['Dividend'] >= lo) & (filtered['Dividend'] <= hi)]
YieldMask(r, yield_range) ==
    r.cells["Dividend"].n >= yield_range[1] /\ r.cells["Dividend"].n <= yield_range[2]

FilterYield(rows, yield_range) ==
    SelectSeq(rows, LAMBDA r : YieldMask(r, yield_range))

\* Mutant of Filtered: the four `if`s chained as if / elif, so that only the
\* first active criterion is applied.
Filtered_FirstOnly(df, crit) ==
    IF has_search(crit) THEN FilterSearch(df.rows, crit.search_term)
    ELSE IF has_strat(crit) THEN FilterTags(df.rows, crit.selected_strategies)
    ELSE IF has_freq(crit) THEN FilterFreq(df.rows, crit.selected_freq)
    ELSE IF has_yield(crit) /\ "Dividend" \in df.columns
    THEN FilterYield(df.rows, crit.yield_range)
    ELSE df.rows

\* The body of `if has_search or has_strat or has_freq or has_yield:` up to
\* the yield filter.
Filtered(df, crit) ==
    LET f1 == IF has_search(crit) THEN FilterSearch(df.rows, crit.search_term) ELSE df.rows
        f2 == IF has_strat(crit) THEN FilterTags(f1, crit.selected_strategies) ELSE f1
        f3 == IF has_freq(crit) THEN FilterFreq(f2, crit.selected_freq) ELSE f2
    IN  IF has_yield(crit) /\ "Dividend" \in df.columns
        THEN FilterYield(f3, crit.yield_range)
        ELSE f3

\* target_order
TargetOrder ==
    {"Ticker", "Strategy", "Underlying", "Current Price", "Payout",
     "Latest Distribution", "Dividend", "Declaration Date", "Ex-Div Date", "Pay Date"}

\* rename_map, applied to one column name.
Rename(c) ==
    CASE c = "Current Price" -> "Price"
      [] c = "Dividend" -> "Yield %"
      [] c = "Latest Distribution" -> "Latest Dist"
      [] OTHER -> c

\* The orders display_df.sort_values(by='Yield %', ascending=False) can
\* leave the rows in: kind defaults to 'quicksort', which is not stable, so
\* any arrangement with non-increasing yield is possible.
SortedOrders(rows) ==
    {[i \in 1..Len(rows) |-> rows[p[i]]] : p \in
        {q \in Permutations(1..Len(rows)) :
            \A i \in 1..(Len(rows) - 1) :
                rows[q[i]].cells["Dividend"].n >= rows[q[i+1]].cells["Dividend"].n}}

\* The index labels of a sequence of rows, in order.
Labels(rows) == [i \in 1..Len(rows) |-> rows[i].idx]

\* What section 5 can put on the page for a non-empty frame.
Displays(df, crit) ==
    IF has_search(crit) \/ has_strat(crit) \/ has_freq(crit) \/ has_yield(crit)
    THEN LET filtered == Filtered(df, crit)
         IN  IF filtered # <<>>
             THEN {[kind |-> "table",
                    cols |-> {Rename(c) : c \in TargetOrder \cap df.columns},
                    rows |-> Labels(o)] :
                   o \in IF "Dividend" \in df.columns
                         THEN SortedOrders(filtered)
                         ELSE {filtered}}
             ELSE {[kind |-> "nomatch", cols |-> {}, rows |-> <<>>]}
    ELSE {[kind |-> "full",
           cols |-> {Rename(c) : c \in df.columns},
           rows |-> Labels(df.rows)]}

(* ---------------------------- state machine ---------------------------- *)

VARIABLES
    upstream,   \* the sheet behind csv_url: what pd.read_csv gives when it succeeds
    cached,     \* st.cache_data holds a value returned by load_data
    df,         \* the frame the last script run got from load_data()
    crit,       \* the widget values: search_term, the two multiselects, the slider
    display     \* what the last script run put on the page

vars == <<upstream, cached, df, crit, display>>

\* Sets of at most n expected columns.
ColumnSets(n) == {m \in SUBSET AllCols : Cardinality(m) <= n}

\* The sets of missing columns of the sheets the interactive model starts from.
MissingPool == {{}, {"Payout"}, {"Dividend"}, {"Ticker"}}

Sheets == {Sheet(m, rows) : m \in MissingPool, rows \in RowSeqs(GoodRows, MaxRows)}

LoaderSheets ==
    {Sheet(m, rows) : m \in ColumnSets(MaxMissing),
                      rows \in RowSeqs(GoodRows \cup BadRows, MaxRows)}

\* Before the first script run of a session.
NoDisplay == [kind |-> "none", cols |-> {}, rows |-> <<>>]

InitWith(sheets) ==
    /\ upstream \in sheets
    /\ cached = FALSE
    /\ df = EmptyFrame
    /\ crit = DefaultCriteria
    /\ display = NoDisplay

Init == InitWith(Sheets)

InitLoader == InitWith(LoaderSheets)

\* The widgets of section 4 are on the page only if the last run got past
\* `if df.empty: st.stop()`.
WidgetsShown == display.kind \in {"table", "nomatch", "full"}

\* What a call of load_data() can meet: a cached value younger than ttl=600
\* ("hit"), or a read of the sheet that succeeds ("read") or fails ("fail").
CacheOutcomes == IF cached THEN {"hit", "read", "fail"} ELSE {"read", "fail"}

\* @st.cache_data(ttl=600) around load_data.
CachedLoadData(outcome) ==
    IF outcome = "hit" THEN df
    ELSE LoadData(IF outcome = "read" THEN upstream ELSE FetchError)

\* One execution of the script with the widget values c.  An exception in
\* load_data ends the run and caches nothing; an empty frame stops the run
\* at st.stop(); in both cases no widget is rendered, and Streamlit drops
\* the state of widgets a run does not render.
RunScript(c, outcome) ==
    LET loaded == CachedLoadData(outcome)
    IN  /\ df' = loaded
        /\ cached' = ~loaded.raised
        /\ upstream' = upstream
        /\ IF loaded.raised
           THEN /\ crit' = DefaultCriteria
                /\ display' = [kind |-> "error", cols |-> {}, rows |-> <<>>]
           ELSE IF IsEmpty(loaded)
           THEN /\ crit' = DefaultCriteria
                /\ display' = [kind |-> "stopped", cols |-> {}, rows |-> <<>>]
           ELSE /\ crit' = c
                /\ display' \in Displays(loaded, c)

\* The page is opened or reloaded: the script runs with the widgets as they are.
Rerun ==
    \E outcome \in CacheOutcomes : RunScript(crit, outcome)

\* The user edits the search box.
SetSearch ==
    /\ WidgetsShown
    /\ \E q \in Queries \ {crit.search_term}, outcome \in CacheOutcomes :
          RunScript([crit EXCEPT !.search_term = q], outcome)

\* The user adds or removes one tag in the strategy multiselect.
ToggleStrategy ==
    /\ WidgetsShown
    /\ \E t \in AllTags(df), outcome \in CacheOutcomes :
          RunScript([crit EXCEPT !.selected_strategies =
                        IF t \in @ THEN @ \ {t} ELSE @ \cup {t}], outcome)

\* The user adds or removes one value in the payout multiselect.
ToggleFreq ==
    /\ WidgetsShown
    /\ \E f \in FreqOpts(df), outcome \in CacheOutcomes :
          RunScript([crit EXCEPT !.selected_freq =
                        IF f \in @ THEN @ \ {f} ELSE @ \cup {f}], outcome)

\* The user drags the yield slider.
SetYield ==
    /\ WidgetsShown
    /\ \E y \in YieldRanges \ {crit.yield_range}, outcome \in CacheOutcomes :
          RunScript([crit EXCEPT !.yield_range = y], outcome)

Next ==
    \/ Rerun
    \/ SetSearch
    \/ ToggleStrategy
    \/ ToggleFreq
    \/ SetYield

Spec == Init /\ [][Next]_vars

\* The loader alone: every sheet with at most MaxMissing columns missing,
\* loaded and shown with the widgets untouched.
NextLoader == Rerun

SpecLoader == InitLoader /\ [][NextLoader]_vars

(* ------------------------------- claims -------------------------------- *)

\* The index labels on the page.
Shown == Range(display.rows)

\* The row of the store with index label i.
RowAt(i) == CHOOSE r \in Range(df.rows) : r.idx = i

\* The labels of the rows that pass the filters of the criteria c.
Passing(c) == Range(Labels(Filtered(df, c)))

\* The sheet behind csv_url publishes column c.
Published(c) == RawName(c) \in upstream.header

\* Literal substring: needle occurs in text, character for character.
IsSubstring(needle, text) ==
    \E i \in 0..(Len(text) - Len(needle)) :
        \A j \in 1..Len(needle) : text[i+j] = needle[j]

\* Case-insensitive literal containment.
ContainsText(text, needle) == IsSubstring(Lower(needle), Lower(text))

\* A row satisfies every criterion that is active.
SatisfiesAll(r) ==
    /\ has_search(crit) => SearchMask(r, crit.search_term)
    /\ has_strat(crit) =>
          \A t \in crit.selected_strategies : StrContainsNoCase(r.cells["Category"].s, t)
    /\ has_freq(crit) => r.cells["Payout"].s \in crit.selected_freq
    /\ (has_yield(crit) /\ "Dividend" \in df.columns) => YieldMask(r, crit.yield_range)

\* The four filters applied in the opposite order: yield, payout, tags, search.
ReverseOrder ==
    LET g1 == IF has_yield(crit) /\ "Dividend" \in df.columns
              THEN FilterYield(df.rows, crit.yield_range) ELSE df.rows
        g2 == IF has_freq(crit) THEN FilterFreq(g1, crit.selected_freq) ELSE g1
        g3 == IF has_strat(crit) THEN FilterTags(g2, crit.selected_strategies) ELSE g2
    IN  IF has_search(crit) THEN FilterSearch(g3, crit.search_term) ELSE g3

\* C1: whatever the sheet and the criteria, the rows on the page are exactly
\* the rows of the store that satisfy every active criterion; an inactive
\* criterion excludes nothing, so with no criterion the whole store is
\* shown; and applying the criteria in the opposite order gives the same rows.
C1_FilterComposition ==
    WidgetsShown =>
        /\ Shown = {r.idx : r \in {x \in Range(df.rows) : SatisfiesAll(x)}}
        /\ Shown = Range(Labels(ReverseOrder))
        /\ (crit = DefaultCriteria => Shown = Range(Labels(df.rows)) /\ display.kind = "full")

\* C1 witness: search and a tag are both active and the table shows some but
\* not all rows of the store.
C1_Witness ==
    /\ display.kind = "table"
    /\ has_search(crit)
    /\ has_strat(crit)
    /\ Len(display.rows) < Len(df.rows)

\* C2 as claimed: with tags selected, a row that passes the other criteria
\* is on the page if its category contains ANY selected tag, ignoring case.
C2_AnySelectedTag ==
    (WidgetsShown /\ has_strat(crit)) =>
        Shown = {i \in Passing([crit EXCEPT !.selected_strategies = {}]) :
                    \E t \in crit.selected_strategies :
                        ContainsText(RowAt(i).cells["Category"].s, t)}

\* C2 amended: with tags selected (tags free of regex metacharacters), a row
\* that passes the other criteria is on the page iff its category contains
\* EVERY selected tag, ignoring case.
C2_EverySelectedTag ==
    (WidgetsShown /\ has_strat(crit)
        /\ \A t \in crit.selected_strategies : "." \notin Range(t)) =>
        Shown = {i \in Passing([crit EXCEPT !.selected_strategies = {}]) :
                    \A t \in crit.selected_strategies :
                        ContainsText(RowAt(i).cells["Category"].s, t)}

\* C2 witness: two tags are selected, the table shows rows, and a row that
\* carries one of the tags and passes every other criterion is left out.
C2_Witness ==
    /\ display.kind = "table"
    /\ Cardinality(crit.selected_strategies) = 2
    /\ \E i \in Passing([crit EXCEPT !.selected_strategies = {}]) \ Shown :
          \E t \in crit.selected_strategies :
              ContainsText(RowAt(i).cells["Category"].s, t)

\* C3 as claimed: in every filtered result each row on the page has its
\* yield within the slider's bounds.
C3_ShownWithinBounds ==
    (display.kind = "table" /\ "Dividend" \in df.columns) =>
        \A i \in Shown :
            /\ crit.yield_range[1] <= RowAt(i).cells["Dividend"].n
            /\ RowAt(i).cells["Dividend"].n <= crit.yield_range[2]

\* C3 amended: for a store with the Dividend column, when the slider is off
\* its default (0, 150) the rows on the page are exactly the rows passing
\* the other criteria whose yield y has lo <= y <= hi, both inclusive; at
\* the default position the yield criterion excludes nothing.
C3_YieldCriterion ==
    (WidgetsShown /\ "Dividend" \in df.columns) =>
        IF crit.yield_range # <<SliderMin, SliderMax>>
        THEN Shown = {i \in Passing([crit EXCEPT !.yield_range = <<SliderMin, SliderMax>>]) :
                        /\ crit.yield_range[1] <= RowAt(i).cells["Dividend"].n
                        /\ RowAt(i).cells["Dividend"].n <= crit.yield_range[2]}
        ELSE Shown = Passing([crit EXCEPT !.yield_range = <<SliderMin, SliderMax>>])

\* C3 witness: the slider is off its default, a row whose yield equals the
\* lower bound is shown and a row above the upper bound is left out.
C3_Witness ==
    /\ display.kind = "table"
    /\ "Dividend" \in df.columns
    /\ crit.yield_range # <<SliderMin, SliderMax>>
    /\ \E i \in Shown : RowAt(i).cells["Dividend"].n = crit.yield_range[1]
    /\ \E r \in Range(df.rows) : r.idx \notin Shown /\ r.cells["Dividend"].n > crit.yield_range[2]

\* C4 as claimed: with a query typed, a row that passes the other criteria
\* is on the page iff the lowercased query is a literal substring of the
\* lowercased ticker, strategy, company, category or underlying.
C4_LiteralSubstring ==
    (WidgetsShown /\ has_search(crit)) =>
        Shown = {i \in Passing([crit EXCEPT !.search_term = <<>>]) :
                    \E c \in {"Ticker", "Strategy", "Company", "Category", "Underlying"} :
                        ContainsText(RowAt(i).cells[c].s, crit.search_term)}

\* C5 as claimed: on a sheet without a Payout column every row is in the
\* store with the default payout, no row is on the page once any payout
\* option is selected, and without a payout selection the rows passing the
\* other criteria are on the page.
C5_DefaultNeverSelected ==
    (WidgetsShown /\ ~Published("Payout")) =>
        /\ Range(Labels(df.rows)) = 1..Len(upstream.rows)
        /\ \A r \in Range(df.rows) : r.cells["Payout"] = Str(Dash)
        /\ has_freq(crit) => Shown = {}
        /\ ~has_freq(crit) => Shown = Passing(crit)

\* C5 amended: on a sheet without a Payout column every row is in the store
\* with the default payout '-'; '-' is the one payout option offered, and
\* whether it is selected or nothing is selected, the rows passing the other
\* criteria are on the page.
C5_DefaultIsTheOption ==
    (WidgetsShown /\ ~Published("Payout")) =>
        /\ Range(Labels(df.rows)) = 1..Len(upstream.rows)
        /\ \A r \in Range(df.rows) : r.cells["Payout"] = Str(Dash)
        /\ FreqOpts(df) = {Dash}
        /\ crit.selected_freq \subseteq {Dash}
        /\ Shown = Passing([crit EXCEPT !.selected_freq = {}])

\* C5 witness: no Payout column, the payout option is selected and the
\* table shows rows.
C5_Witness ==
    /\ ~Published("Payout")
    /\ has_freq(crit)
    /\ display.kind = "table"

\* The fields the data model calls numeric.
NumericCols ==
    {"Current Price", "Dividend", "Expense Ratio", "Latest Distribution", "AUM"}

\* C6 as claimed: whichever expected columns a fetched sheet lacks,
\* load_data returns without raising and every record carries each missing
\* field with its default: a text default for text, 0 for numeric fields.
C6_MissingColumnsDefaulted ==
    (display.kind # "none" /\ df # EmptyFrame) =>
        /\ ~df.raised
        /\ \A c \in {x \in AllCols : ~Published(x)} :
              /\ c \in df.columns
              /\ \A r \in Range(df.rows) :
                    r.cells[c] \in (IF c \in NumericCols THEN {Num(0)}
                                    ELSE {Str(Dash), Str(<<>>)})

\* C7 as claimed: after load_data every published percentage and currency
\* field of every record holds the number parsed from the raw text with
\* '%', '$' and ',' removed, and 0 where the text is blank or malformed.
C7_NumericFieldsParsed ==
    (display.kind # "none" /\ ~df.raised) =>
        \A r \in Range(df.rows) :
            \A c \in {x \in {"Dividend", "Expense Ratio", "Current Price",
                             "Latest Distribution"} : Published(x)} :
                /\ r.cells[c].t = "num"
                /\ r.cells[c] = CleanNumber(upstream.rows[r.idx][RawName(c)])

\* C8 as claimed: with the yield column present, every table on the page,
\* the one shown with no criterion active included, lists its rows in
\* non-increasing order of yield.
C8_EveryTableSorted ==
    (display.kind \in {"table", "full"} /\ "Dividend" \in df.columns) =>
        \A i \in 1..(Len(display.rows) - 1) :
            RowAt(display.rows[i]).cells["Dividend"].n
                >= RowAt(display.rows[i+1]).cells["Dividend"].n

\* C9 as claimed: in the filtered table two rows of equal yield stand in
\* the order they have in the store.
C9_TiesKeepSourceOrder ==
    (display.kind = "table" /\ "Dividend" \in df.columns) =>
        \A i, j \in 1..Len(display.rows) :
            (i < j /\ RowAt(display.rows[i]).cells["Dividend"].n
                        = RowAt(display.rows[j]).cells["Dividend"].n)
                => display.rows[i] < display.rows[j]

\* Some criterion is active.
AnyCriterion ==
    has_search(crit) \/ has_strat(crit) \/ has_freq(crit) \/ has_yield(crit)

\* C10, in every state: an exception leaves load_data only for a sheet
\* without Ticker column, never for a failed fetch; while the store is
\* empty neither a table nor "no matches" is on the page; "no matches" is on
\* the page only with a non-empty store and active criteria no row passes.
C10_EmptyStoreShowsNothing ==
    /\ df.raised => ~Published("Ticker")
    /\ IsEmpty(df) => display.kind \in {"none", "stopped", "error"}
    /\ display.kind = "nomatch" =>
          /\ ~IsEmpty(df)
          /\ AnyCriterion
          /\ Passing(crit) = {}

\* C10, in every step: a run that starts from an empty store puts a table
\* or "no matches" on the page only if it read the sheet successfully.
C10_ShownOnlyAfterRead ==
    (IsEmpty(df) /\ display'.kind \in {"table", "nomatch", "full"})
        => (df' = LoadData(upstream) /\ ~IsEmpty(df'))

\* C10: a failed fetch yields the empty store instead of an error, from then
\* on nothing is filtered or shown until a later fetch succeeds, and "no
\* matches" needs a non-empty store whose rows all fail the criteria.
C10_FetchFailureHalts ==
    [] C10_EmptyStoreShowsNothing /\ [][C10_ShownOnlyAfterRead]_vars

\* C10 witness: the sheet has a Ticker column and rows, yet the store is
\* empty and the run has stopped: the fetch failed.
C10_Witness ==
    /\ Published("Ticker")
    /\ upstream.rows # <<>>
    /\ df = EmptyFrame
    /\ cached
    /\ display.kind = "stopped"

=============================================================================
